---- MODULE Spec2Model ----
(***************************************************************************)
(* Model of the structured-output schema builder of Flowise:                *)
(*   - the editor component ZodSchema (ZodSchemaBuilder.jsx): the effect    *)
(*     that normalizes the incoming `value`, the preview generator and the  *)
(*     edit handlers;                                                       *)
(*   - the node StructuredOutputParserAdvancedUI: init and the conversion   *)
(*     of the stored configuration into a zod schema.                       *)
(*                                                                         *)
(* JSON values.  A descriptor is a record whose DOMAIN is the set of its    *)
(* present attributes (an absent attribute reads as undefined).  The JSON   *)
(* value null is NullValue.  A zod schema is a record with a field `t`.     *)
(* A raised exception is a record with a field `error`.                     *)
(***************************************************************************)
EXTENDS Integers, Sequences, FiniteSets, TLC

VARIABLES
    value,            \* the `value` prop handed to the editor / stored in the node
    fields,           \* useState: fields (the latest setFields)
    generatedSchema,  \* useState: generatedSchema
    shown,            \* the fields and value of the last render (what closures see)
    pending,          \* effects scheduled by the last render and not yet run
    emitted,          \* the last argument of onChange, NoEmit before any edit
    parser,           \* the outcome of the last init call, NoParser before any
    now,              \* Date.now()
    edits,            \* the number of edit handlers run so far
    last              \* the step taken last, with its arguments

vars == <<value, fields, generatedSchema, shown, pending, emitted, parser, now,
          edits, last>>

-----------------------------------------------------------------------------
(* Bounds of the model *)

\* Largest clock value the model lets Date.now() reach.
MaxNow == 2
\* Number of distinct values Date.now() + Math.random() may take in the model.
MaxFresh == 2
\* Largest number of edit handlers the model runs.
MaxEdits == 2
\* Largest length bound (minLength, maxLength, minItems) an input carries.
MaxBound == 2

-----------------------------------------------------------------------------
(* JSON values and JavaScript helpers *)

NullValue == [null |-> TRUE]

\* The object literal {}.
EmptyObject == <<>>

Has(obj, key) == key \in DOMAIN obj

IsError(x) == "error" \in DOMAIN x

TypeError == [error |-> "TypeError"]
SyntaxError == [error |-> "SyntaxError"]
RangeError == [error |-> "RangeError"]

\* Array.prototype.map for a callback that may throw: the first exception
\* raised by the callback leaves the map.
RECURSIVE FirstError(_)
FirstError(seq) ==
    IF seq = <<>> THEN <<>>
    ELSE IF IsError(Head(seq)) THEN Head(seq)
    ELSE FirstError(Tail(seq))

Range(seq) == {seq[i] : i \in DOMAIN seq}

\* An index path into a tree: <<i>> is the i-th root, <<i, j>> its j-th child.
\* Date.now() in the model's integer time: one clock tick spans TimeUnit
\* representable numbers, so Date.now() + Math.random() is DateNow + r with
\* 0 <= r < MaxFresh.
TimeUnit == MaxFresh + 1
DateNow == now * TimeUnit
RandomDraws == 0 .. (MaxFresh - 1)

-----------------------------------------------------------------------------
(* ZodSchemaBuilder.jsx: the effect on [value] *)

\* The paths of the descriptors of a tree; null has no attributes to follow.
RECURSIVE Paths(_, _)
Paths(seq, path) ==
    UNION { {Append(path, i)}
            \cup (IF seq[i] # NullValue /\ Has(seq[i], "children")
                  THEN Paths(seq[i].children, Append(path, i))
                  ELSE {})
          : i \in DOMAIN seq }

\* The paths of the descriptors for which normalizeField calls Math.random():
\* those whose id is missing or 0 (`field.id || ...`).
RECURSIVE NeedsId(_, _)
NeedsId(seq, path) ==
    UNION { IF seq[i] = NullValue THEN {}
            ELSE (IF Has(seq[i], "id") /\ seq[i].id # 0 THEN {} ELSE {Append(path, i)})
                 \cup (IF Has(seq[i], "children")
                       THEN NeedsId(seq[i].children, Append(path, i))
                       ELSE {})
          : i \in DOMAIN seq }

\* normalizeField generating an id for every descriptor, also one that has an id.
RECURSIVE normalizeField_NewId(_, _, _)
normalizeField_NewId(field, path, rnd) ==
    IF field = NullValue THEN TypeError
    ELSE
      LET kids == IF Has(field, "children")
                  THEN [i \in DOMAIN field.children |->
                           normalizeField_NewId(field.children[i], Append(path, i), rnd)]
                  ELSE <<>>
      IN IF FirstError(kids) # <<>> THEN FirstError(kids)
         ELSE [ id          |-> DateNow + rnd[path],
                fieldName   |-> IF Has(field, "fieldName") THEN field.fieldName ELSE "",
                fieldType   |-> IF Has(field, "fieldType") /\ field.fieldType # ""
                                THEN field.fieldType ELSE "string",
                description |-> IF Has(field, "description") THEN field.description ELSE "",
                required    |-> IF Has(field, "required") THEN field.required ELSE TRUE,
                validation  |-> IF Has(field, "validation") THEN field.validation
                                ELSE EmptyObject,
                children    |-> kids ]

\* normalizeField.  rnd[path] is the value Math.random() returns when it is
\* called for the descriptor at `path` (it is called when the id is missing
\* or 0).  Reading an attribute of null raises a TypeError.
RECURSIVE normalizeField(_, _, _)
normalizeField(field, path, rnd) ==
    IF field = NullValue THEN TypeError
    ELSE
      LET kids == IF Has(field, "children")
                  THEN [i \in DOMAIN field.children |->
                           normalizeField(field.children[i], Append(path, i), rnd)]
                  ELSE <<>>
      IN IF FirstError(kids) # <<>> THEN FirstError(kids)
         ELSE [ id          |-> IF Has(field, "id") /\ field.id # 0
                                THEN field.id ELSE DateNow + rnd[path],
                fieldName   |-> IF Has(field, "fieldName") THEN field.fieldName ELSE "",
                fieldType   |-> IF Has(field, "fieldType") /\ field.fieldType # ""
                                THEN field.fieldType ELSE "string",
                description |-> IF Has(field, "description") THEN field.description ELSE "",
                required    |-> IF Has(field, "required") THEN field.required ELSE TRUE,
                validation  |-> IF Has(field, "validation") THEN field.validation
                                ELSE EmptyObject,
                children    |-> kids ]

\* JSON.parse of the prop when it is text; a value that is no text is used as is.
JSONParse(v) ==
    IF v.tag = "text"
    THEN (IF v.valid THEN v.json ELSE SyntaxError)
    ELSE v.json

IsArray(json) == Has(json, "arr")

\* NormalizeValue without the catch block: an exception leaves the effect.
NormalizeValue_NoCatch(v, rnd) ==
    LET parsedValue == JSONParse(v) IN
    IF IsError(parsedValue) THEN parsedValue
    ELSE IF IsArray(parsedValue)
    THEN LET fieldsWithChildren ==
                 [i \in DOMAIN parsedValue.arr |->
                     normalizeField(parsedValue.arr[i], <<i>>, rnd)]
         IN IF FirstError(fieldsWithChildren) # <<>> THEN FirstError(fieldsWithChildren)
            ELSE [setFields |-> fieldsWithChildren]
    ELSE [setFields |-> <<>>]

\* The body of the effect: the setFields call it ends with.  Every exception
\* raised inside the try block is caught (lines 73-76).
SetFields(tree) == [setFields |-> tree]

NormalizeValue(v, rnd) ==
    LET parsedValue == JSONParse(v) IN
    IF IsError(parsedValue) THEN SetFields(<<>>)
    ELSE IF IsArray(parsedValue)
    THEN LET fieldsWithChildren ==
                 [i \in DOMAIN parsedValue.arr |->
                     normalizeField(parsedValue.arr[i], <<i>>, rnd)]
         IN IF FirstError(fieldsWithChildren) # <<>> THEN SetFields(<<>>)
            ELSE SetFields(fieldsWithChildren)
    ELSE SetFields(<<>>)

\* The Math.random() results a run of the effect on `v` consumed, of `rnd`.
Drawn(v, rnd) ==
    LET parsedValue == JSONParse(v) IN
    IF IsError(parsedValue) \/ ~IsArray(parsedValue) THEN <<>>
    ELSE [path \in NeedsId(parsedValue.arr, <<>>) |-> rnd[path]]

\* The Math.random() results one run of the effect on `v` may see.
RandomChoices(v) ==
    LET parsedValue == JSONParse(v) IN
    IF IsError(parsedValue) \/ ~IsArray(parsedValue) THEN {<<>>}
    ELSE [Paths(parsedValue.arr, <<>>) -> RandomDraws]

-----------------------------------------------------------------------------
(* zod: the schema values the builder calls construct *)

ZString == [t |-> "string", checks |-> <<>>, description |-> ""]
ZNumber == [t |-> "number", checks |-> <<>>, description |-> ""]
ZBoolean == [t |-> "boolean", description |-> ""]
ZDate == [t |-> "date", description |-> ""]
ZArray(item) == [t |-> "array", element |-> item, checks |-> <<>>, description |-> ""]
ZObject(shape) == [t |-> "object", shape |-> shape, description |-> ""]
ZEnum(values) == [t |-> "enum", values |-> values, description |-> ""]
ZLiteral(v) == [t |-> "literal", value |-> v, description |-> ""]

\* schema.min(n), .max(n), .regex(re), .email(), .url(), .int(): a copy of
\* the schema with one more check.
AddCheck(schema, check) == [schema EXCEPT !.checks = Append(@, check)]

\* schema.optional(): a ZodOptional around the schema, created with the
\* schema's own definition and so carrying its description.
Optional(schema) == [t |-> "optional", inner |-> schema, description |-> schema.description]

\* schema.describe(text)
Describe(schema, text) == [schema EXCEPT !.description = text]

\* Patterns `new RegExp(pattern)` rejects with a SyntaxError.
InvalidPatterns == {"("}

-----------------------------------------------------------------------------
(* StructuredOutputParserAdvancedUI.ts: the schema compiler *)

TruthyNumber(obj, key) == Has(obj, key) /\ obj[key] # 0
TruthyString(obj, key) == Has(obj, key) /\ obj[key] # ""
TruthyBoolean(obj, key) == Has(obj, key) /\ obj[key]

\* The value of `enumValues`: an array, or a JavaScript string held where
\* the code expects an array.
ArrayValue(seq) == [arr |-> seq]
TextValue(s) == [text |-> s]
IsText(v) == Has(v, "text")

\* `v && v.length > 0` for an array or a string v.
NonEmpty(v) == IF IsText(v) THEN v.text # "" ELSE Len(v.arr) > 0

\* `const { fieldType, validation = {} } = field`
ValidationOf(field) == IF Has(field, "validation") THEN field.validation ELSE EmptyObject
FieldTypeOf(field) == IF Has(field, "fieldType") THEN field.fieldType ELSE "undefined"

\* `f.parentId === field.id`: two undefined values are strictly equal.
IsChildOf(f, field) ==
    IF Has(f, "parentId")
    THEN Has(field, "id") /\ f.parentId = field.id
    ELSE ~Has(field, "id")

\* The key `zodObj[field.fieldName] = ...` writes: undefined becomes "undefined".
KeyOf(field) == IF Has(field, "fieldName") THEN field.fieldName ELSE "undefined"

\* StringSchema with the email and url checks added to the checks before them.
StringSchema_EmailComposes(validation) ==
    LET s1 == IF TruthyNumber(validation, "minLength")
              THEN AddCheck(ZString, [kind |-> "min", n |-> validation.minLength])
              ELSE ZString
        s2 == IF TruthyNumber(validation, "maxLength")
              THEN AddCheck(s1, [kind |-> "max", n |-> validation.maxLength])
              ELSE s1
        s3 == IF TruthyString(validation, "pattern")
              THEN AddCheck(s2, [kind |-> "regex", pattern |-> validation.pattern])
              ELSE s2
        s4 == IF TruthyBoolean(validation, "email")
              THEN AddCheck(s3, [kind |-> "email"])
              ELSE s3
        s5 == IF TruthyBoolean(validation, "url")
              THEN AddCheck(s4, [kind |-> "url"])
              ELSE s4
    IN IF TruthyString(validation, "pattern") /\ validation.pattern \in InvalidPatterns
       THEN SyntaxError
       ELSE s5

\* StringSchema with the pattern check replacing the length bounds.
StringSchema_PatternOverrides(validation) ==
    LET s1 == IF TruthyNumber(validation, "minLength")
              THEN AddCheck(ZString, [kind |-> "min", n |-> validation.minLength])
              ELSE ZString
        s2 == IF TruthyNumber(validation, "maxLength")
              THEN AddCheck(s1, [kind |-> "max", n |-> validation.maxLength])
              ELSE s1
        s3 == IF TruthyString(validation, "pattern")
              THEN AddCheck(ZString, [kind |-> "regex", pattern |-> validation.pattern])
              ELSE s2
        s4 == IF TruthyBoolean(validation, "email")
              THEN AddCheck(ZString, [kind |-> "email"])
              ELSE s3
        s5 == IF TruthyBoolean(validation, "url")
              THEN AddCheck(ZString, [kind |-> "url"])
              ELSE s4
    IN IF TruthyString(validation, "pattern") /\ validation.pattern \in InvalidPatterns
       THEN SyntaxError
       ELSE s5

\* case 'string' (lines 140-148); `new RegExp` raises on an invalid pattern.
StringSchema(validation) ==
    LET s1 == IF TruthyNumber(validation, "minLength")
              THEN AddCheck(ZString, [kind |-> "min", n |-> validation.minLength])
              ELSE ZString
        s2 == IF TruthyNumber(validation, "maxLength")
              THEN AddCheck(s1, [kind |-> "max", n |-> validation.maxLength])
              ELSE s1
        s3 == IF TruthyString(validation, "pattern")
              THEN AddCheck(s2, [kind |-> "regex", pattern |-> validation.pattern])
              ELSE s2
        s4 == IF TruthyBoolean(validation, "email")
              THEN AddCheck(ZString, [kind |-> "email"])
              ELSE s3
        s5 == IF TruthyBoolean(validation, "url")
              THEN AddCheck(ZString, [kind |-> "url"])
              ELSE s4
    IN IF TruthyString(validation, "pattern") /\ validation.pattern \in InvalidPatterns
       THEN SyntaxError
       ELSE s5

\* case 'number' (lines 150-156)
NumberSchema(validation) ==
    LET s1 == IF Has(validation, "min")
              THEN AddCheck(ZNumber, [kind |-> "min", n |-> validation.min])
              ELSE ZNumber
        s2 == IF Has(validation, "max")
              THEN AddCheck(s1, [kind |-> "max", n |-> validation.max])
              ELSE s1
    IN IF TruthyBoolean(validation, "integer")
       THEN AddCheck(s2, [kind |-> "int"])
       ELSE s2

\* z.array(itemSchema) with the minItems / maxItems bounds (lines 164-167, 174-177)
ArraySchema(itemSchema, validation) ==
    LET s1 == IF TruthyNumber(validation, "minItems")
              THEN AddCheck(ZArray(itemSchema), [kind |-> "min", n |-> validation.minItems])
              ELSE ZArray(itemSchema)
    IN IF TruthyNumber(validation, "maxItems")
       THEN AddCheck(s1, [kind |-> "max", n |-> validation.maxItems])
       ELSE s1

RECURSIVE createObjectFromFields(_, _, _)
RECURSIVE createZodFieldFromConfig(_, _, _)

\* createObjectFromFields keeping, for a name, the entry of the first field.
createObjectFromFields_FirstWins(fieldsToProcess, allFields, stack) ==
    LET zodFields ==
            [i \in DOMAIN fieldsToProcess |->
                LET field == fieldsToProcess[i]
                    zodField == createZodFieldFromConfig(field, allFields, stack)
                IN IF IsError(zodField) THEN zodField
                   ELSE LET opt == IF ~TruthyBoolean(field, "required")
                                   THEN Optional(zodField) ELSE zodField
                        IN IF TruthyString(field, "description")
                           THEN Describe(opt, field.description) ELSE opt]
        keys == {KeyOf(fieldsToProcess[i]) : i \in DOMAIN fieldsToProcess}
        First(k) == CHOOSE i \in DOMAIN fieldsToProcess :
                     /\ KeyOf(fieldsToProcess[i]) = k
                     /\ \A j \in DOMAIN fieldsToProcess :
                            KeyOf(fieldsToProcess[j]) = k => j >= i
    IN IF FirstError(zodFields) # <<>> THEN FirstError(zodFields)
       ELSE ZObject([k \in keys |-> zodFields[First(k)]])

\* createObjectFromFields.  `stack` holds the descriptors whose
\* createZodFieldFromConfig call is in progress.
createObjectFromFields(fieldsToProcess, allFields, stack) ==
    LET zodFields ==
            [i \in DOMAIN fieldsToProcess |->
                LET field == fieldsToProcess[i]
                    zodField == createZodFieldFromConfig(field, allFields, stack)
                IN IF IsError(zodField) THEN zodField
                   ELSE LET opt == IF ~TruthyBoolean(field, "required")
                                   THEN Optional(zodField) ELSE zodField
                        IN IF TruthyString(field, "description")
                           THEN Describe(opt, field.description) ELSE opt]
        keys == {KeyOf(fieldsToProcess[i]) : i \in DOMAIN fieldsToProcess}
        Last(k) == CHOOSE i \in DOMAIN fieldsToProcess :
                     /\ KeyOf(fieldsToProcess[i]) = k
                     /\ \A j \in DOMAIN fieldsToProcess :
                            KeyOf(fieldsToProcess[j]) = k => j <= i
    IN IF FirstError(zodFields) # <<>> THEN FirstError(zodFields)
       ELSE ZObject([k \in keys |-> zodFields[Last(k)]])

\* createZodFieldFromConfig reading the string constraints for a kind it does
\* not recognize.
createZodFieldFromConfig_KindlessConstrained(field, allFields, stack) ==
    IF field \in stack THEN RangeError
    ELSE
    LET fieldType == FieldTypeOf(field)
        validation == ValidationOf(field)
        childFields == SelectSeq(allFields, LAMBDA f : IsChildOf(f, field))
        inner == stack \cup {field}
    IN CASE fieldType = "string" -> StringSchema(validation)
         [] fieldType = "number" -> NumberSchema(validation)
         [] fieldType = "boolean" -> ZBoolean
         [] fieldType = "array" ->
              LET itemSchema ==
                    IF Len(childFields) > 0
                    THEN createObjectFromFields(childFields, allFields, inner)
                    ELSE createZodFieldFromConfig(
                           [fieldType  |-> IF TruthyString(validation, "itemType")
                                           THEN validation.itemType ELSE "string",
                            validation |-> IF Has(validation, "itemValidation")
                                           THEN validation.itemValidation
                                           ELSE EmptyObject],
                           allFields, inner)
              IN IF IsError(itemSchema) THEN itemSchema
                 ELSE ArraySchema(itemSchema, validation)
         [] fieldType = "enum" ->
              IF Has(validation, "enumValues") /\ NonEmpty(validation.enumValues)
              THEN ZEnum(validation.enumValues)
              ELSE ZString
         [] fieldType = "object" ->
              IF Len(childFields) > 0
              THEN createObjectFromFields(childFields, allFields, inner)
              ELSE ZObject(EmptyObject)
         [] fieldType = "date" -> ZDate
         [] fieldType = "literal" ->
              IF Has(validation, "value") THEN ZLiteral(validation.value) ELSE ZString
         [] OTHER -> StringSchema(validation)

\* createZodFieldFromConfig.  The function is deterministic in its arguments,
\* so a call for a descriptor already on the stack never returns: the engine
\* ends it with a RangeError (call stack exhausted).
createZodFieldFromConfig(field, allFields, stack) ==
    IF field \in stack THEN RangeError
    ELSE
    LET fieldType == FieldTypeOf(field)
        validation == ValidationOf(field)
        childFields == SelectSeq(allFields, LAMBDA f : IsChildOf(f, field))
        inner == stack \cup {field}
    IN CASE fieldType = "string" -> StringSchema(validation)
         [] fieldType = "number" -> NumberSchema(validation)
         [] fieldType = "boolean" -> ZBoolean
         [] fieldType = "array" ->
              LET itemSchema ==
                    IF Len(childFields) > 0
                    THEN createObjectFromFields(childFields, allFields, inner)
                    ELSE createZodFieldFromConfig(
                           [fieldType  |-> IF TruthyString(validation, "itemType")
                                           THEN validation.itemType ELSE "string",
                            validation |-> IF Has(validation, "itemValidation")
                                           THEN validation.itemValidation
                                           ELSE EmptyObject],
                           allFields, inner)
              IN IF IsError(itemSchema) THEN itemSchema
                 ELSE ArraySchema(itemSchema, validation)
         [] fieldType = "enum" ->
              IF Has(validation, "enumValues") /\ NonEmpty(validation.enumValues)
              THEN ZEnum(validation.enumValues)
              ELSE ZString
         [] fieldType = "object" ->
              IF Len(childFields) > 0
              THEN createObjectFromFields(childFields, allFields, inner)
              ELSE ZObject(EmptyObject)
         [] fieldType = "date" -> ZDate
         [] fieldType = "literal" ->
              IF Has(validation, "value") THEN ZLiteral(validation.value) ELSE ZString
         [] OTHER -> ZString

\* convertUIConfigToZodSchema: `schemaConfig.filter` raises when schemaConfig
\* has no filter method, `field.parentId` raises when an element is null.
convertUIConfigToZodSchema(schemaConfig) ==
    IF ~IsArray(schemaConfig) THEN TypeError
    ELSE IF NullValue \in Range(schemaConfig.arr) THEN TypeError
    ELSE LET rootFields == SelectSeq(schemaConfig.arr,
                                     LAMBDA field : ~TruthyNumber(field, "parentId"))
         IN createObjectFromFields(rootFields, schemaConfig.arr, {})

\* init raising an Error whose message does not carry the exception caught.
init_FixedMessage(schemaBuilder) ==
    LET schemaConfig == JSONParse(schemaBuilder)
        zodSchema == IF IsError(schemaConfig) THEN schemaConfig
                     ELSE convertUIConfigToZodSchema(schemaConfig)
    IN IF IsError(zodSchema)
       THEN [tag |-> "error", exception |-> "Error"]
       ELSE [tag |-> "parser", schema |-> zodSchema]

\* init (lines 81-108): the parser built on the compiled schema, or the Error
\* the catch block raises, whose message ends with the text of the exception.
init(schemaBuilder) ==
    LET schemaConfig == JSONParse(schemaBuilder)
        zodSchema == IF IsError(schemaConfig) THEN schemaConfig
                     ELSE convertUIConfigToZodSchema(schemaConfig)
    IN IF IsError(zodSchema)
       THEN [tag |-> "error", exception |-> zodSchema.error]
       ELSE [tag |-> "parser", schema |-> zodSchema]

-----------------------------------------------------------------------------
(* ZodSchemaBuilder.jsx: the preview generator *)

\* The preview text is a sequence of tokens, each standing for the piece of
\* text the generator appends; a token that embeds generated text holds it.
Tok(text) == [tok |-> text]
ZCall(name) == Tok("z." \o name \o "()")
MinTok(n) == [tok |-> ".min(", n |-> n]
MaxTok(n) == [tok |-> ".max(", n |-> n]
RegexTok(pattern) == [tok |-> ".regex(/", pattern |-> pattern]
DescribeTok(text) == [tok |-> ".describe('", text |-> text]
OptionalTok == Tok(".optional()")
ArrayTok(item) == [tok |-> "z.array(", item |-> item]
EnumTok(values) == [tok |-> "z.enum([", values |-> values]
LiteralTok(v) == [tok |-> "z.literal('", value |-> v]
ObjectTok(props) == [tok |-> "z.object({", props |-> props]
Prop(name, code) == [name |-> name, code |-> code]

\* case 'string' (lines 124-132)
StringCode(validation) ==
    LET c1 == IF TruthyNumber(validation, "minLength")
              THEN <<ZCall("string"), MinTok(validation.minLength)>>
              ELSE <<ZCall("string")>>
        c2 == IF TruthyNumber(validation, "maxLength")
              THEN Append(c1, MaxTok(validation.maxLength)) ELSE c1
        c3 == IF TruthyString(validation, "pattern")
              THEN Append(c2, RegexTok(validation.pattern)) ELSE c2
        c4 == IF TruthyBoolean(validation, "email")
              THEN <<ZCall("string"), Tok(".email()")>> ELSE c3
    IN IF TruthyBoolean(validation, "url")
       THEN <<ZCall("string"), Tok(".url()")>> ELSE c4

\* case 'number' (lines 134-140)
NumberCode(validation) ==
    LET c1 == IF Has(validation, "min")
              THEN <<ZCall("number"), MinTok(validation.min)>>
              ELSE <<ZCall("number")>>
        c2 == IF Has(validation, "max")
              THEN Append(c1, MaxTok(validation.max)) ELSE c1
    IN IF TruthyBoolean(validation, "integer")
       THEN Append(c2, Tok(".int()")) ELSE c2

\* The `.min(minItems)` / `.max(maxItems)` suffix of case 'array' (lines 156-157)
ArrayBoundsCode(arrayCode, validation) ==
    LET c1 == IF TruthyNumber(validation, "minItems")
              THEN Append(arrayCode, MinTok(validation.minItems)) ELSE arrayCode
    IN IF TruthyNumber(validation, "maxItems")
       THEN Append(c1, MaxTok(validation.maxItems)) ELSE c1

\* What a call that was to return code gives when an exception leaves it.
Thrown(exception) == <<exception>>

RECURSIVE generateFieldTypeCode(_)
RECURSIVE generateNestedObjectCode(_)

\* generateFieldTypeCode: the code of a field, or the TypeError that
\* `enumValues.map` raises when enumValues is a string (line 163).
generateFieldTypeCode(field) ==
    LET fieldType == FieldTypeOf(field)
        validation == ValidationOf(field)
        hasChildren == Has(field, "children") /\ Len(field.children) > 0
    IN CASE fieldType = "string" -> StringCode(validation)
         [] fieldType = "number" -> NumberCode(validation)
         [] fieldType = "boolean" -> <<ZCall("boolean")>>
         [] fieldType = "array" ->
              IF hasChildren
              THEN LET childSchema == generateNestedObjectCode(field.children)
                   IN IF childSchema = Thrown(TypeError) THEN childSchema
                      ELSE ArrayBoundsCode(<<ArrayTok(childSchema)>>, validation)
              ELSE ArrayBoundsCode(
                       <<ArrayTok(<<ZCall(IF TruthyString(validation, "itemType")
                                          THEN validation.itemType ELSE "string")>>)>>,
                       validation)
         [] fieldType = "enum" ->
              IF Has(validation, "enumValues") /\ NonEmpty(validation.enumValues)
              THEN (IF IsText(validation.enumValues)
                    THEN Thrown(TypeError)
                    ELSE <<EnumTok(validation.enumValues)>>)
              ELSE <<ZCall("string")>>
         [] fieldType = "object" ->
              IF hasChildren THEN generateNestedObjectCode(field.children)
              ELSE <<ObjectTok(<<>>)>>
         [] fieldType = "date" -> <<ZCall("date")>>
         [] fieldType = "literal" ->
              IF Has(validation, "value") THEN <<LiteralTok(validation.value)>>
              ELSE <<ZCall("string")>>
         [] OTHER -> <<ZCall("string")>>

\* generateNestedObjectCode: children with an empty name are left out; the
\* optional suffix comes before the description.
generateNestedObjectCode(children) ==
    IF Len(children) = 0 THEN <<ObjectTok(<<>>)>>
    ELSE LET named == SelectSeq(children, LAMBDA child : TruthyString(child, "fieldName"))
             properties ==
                [i \in DOMAIN named |->
                    LET child == named[i]
                        childCode == generateFieldTypeCode(child)
                        optional == IF TruthyBoolean(child, "required")
                                    THEN <<>> ELSE <<OptionalTok>>
                        description == IF TruthyString(child, "description")
                                       THEN <<DescribeTok(child.description)>> ELSE <<>>
                    IN IF childCode = Thrown(TypeError) THEN TypeError
                       ELSE Prop(child.fieldName, childCode \o optional \o description)]
         IN IF TypeError \in Range(properties) THEN Thrown(TypeError)
            ELSE <<ObjectTok(properties)>>

\* The values of the generatedSchema state.
NoPreview == [kind |-> "empty"]
ErrorPlaceholder == [kind |-> "text", text |-> "// Error generating schema preview"]
PreviewOf(code) == [kind |-> "code", code |-> code]

\* The lines generateSchemaPreview makes of the root fields (lines 88-111):
\* the description comes before the optional suffix and no field is left out.
SchemaLines(fs) ==
    [i \in DOMAIN fs |->
        LET field == fs[i]
            fieldDef == generateFieldTypeCode(field)
            description == IF TruthyString(field, "description")
                           THEN <<DescribeTok(field.description)>> ELSE <<>>
            optional == IF TruthyBoolean(field, "required")
                        THEN <<>> ELSE <<OptionalTok>>
        IN IF fieldDef = Thrown(TypeError) THEN TypeError
           ELSE Prop(field.fieldName, fieldDef \o description \o optional)]

\* generateSchemaPreview without the catch block: an exception leaves it.
generateSchemaPreview_NoCatch(fs) ==
    IF TypeError \in Range(SchemaLines(fs)) THEN TypeError
    ELSE PreviewOf(<<ObjectTok(SchemaLines(fs))>>)

\* generateSchemaPreview over the fields of the render it belongs to: the
\* argument of its setGeneratedSchema call, which is the placeholder when an
\* exception was caught (lines 115-117).
generateSchemaPreview(fs) ==
    IF TypeError \in Range(SchemaLines(fs)) THEN ErrorPlaceholder
    ELSE PreviewOf(<<ObjectTok(SchemaLines(fs))>>)

-----------------------------------------------------------------------------
(* ZodSchemaBuilder.jsx: the edit handlers *)

\* JSON.stringify of a tree of descriptors: text that decodes to the tree.
JSONStringify(tree) == [tag |-> "text", valid |-> TRUE, json |-> [arr |-> tree]]

\* A value handed over in memory, not as text.
InMemory(json) == [tag |-> "value", json |-> json]

\* The descriptors of a tree, parents before their children.
RECURSIVE Flatten(_)
Flatten(seq) ==
    IF seq = <<>> THEN <<>>
    ELSE <<Head(seq)>>
         \o (IF Has(Head(seq), "children") THEN Flatten(Head(seq).children) ELSE <<>>)
         \o Flatten(Tail(seq))

HasChildren(field) == Has(field, "children") /\ Len(field.children) > 0

\* The newField of addField (lines 206-214)
NewField ==
    [ id          |-> DateNow,
      fieldName   |-> "field_" \o ToString(DateNow),
      fieldType   |-> "string",
      description |-> "",
      required    |-> TRUE,
      validation  |-> EmptyObject,
      children    |-> <<>> ]

\* { ...field, ...updates }
Merge(field, updates) ==
    [k \in DOMAIN field \cup DOMAIN updates |->
        IF k \in DOMAIN updates THEN updates[k] ELSE field[k]]

RECURSIVE addChildField(_, _, _)
addChildField(fieldsArray, parentId, newField) ==
    [i \in DOMAIN fieldsArray |->
        LET field == fieldsArray[i] IN
        IF field.id = parentId
        THEN [field EXCEPT !.children = Append(@, newField)]
        ELSE IF HasChildren(field)
        THEN [field EXCEPT !.children = addChildField(@, parentId, newField)]
        ELSE field]

RECURSIVE removeFieldRecursive(_, _)
removeFieldRecursive(fieldsArray, id) ==
    LET kept == SelectSeq(fieldsArray, LAMBDA field : field.id # id)
    IN [i \in DOMAIN kept |->
           Merge(kept[i], "children" :>
                   (IF Has(kept[i], "children")
                    THEN removeFieldRecursive(kept[i].children, id)
                    ELSE <<>>))]

RECURSIVE updateFieldRecursive(_, _, _)
updateFieldRecursive(fieldsArray, id, updates) ==
    [i \in DOMAIN fieldsArray |->
        LET field == fieldsArray[i] IN
        IF field.id = id THEN Merge(field, updates)
        ELSE IF HasChildren(field)
        THEN [field EXCEPT !.children = updateFieldRecursive(@, id, updates)]
        ELSE field]

\* A validationValue: Cleared stands for '' (null and undefined are alike),
\* Given(v) for any other value v.
Cleared == [cleared |-> TRUE]
Given(v) == [given |-> v]

\* `delete newValidation[key]` or `newValidation[key] = validationValue`
SetValidation(validation, key, validationValue) ==
    IF Has(validationValue, "cleared")
    THEN [k \in DOMAIN validation \ {key} |-> validation[k]]
    ELSE Merge(validation, key :> validationValue.given)

RECURSIVE updateValidationRecursive(_, _, _, _)
updateValidationRecursive(fieldsArray, id, validationKey, validationValue) ==
    [i \in DOMAIN fieldsArray |->
        LET field == fieldsArray[i] IN
        IF field.id = id
        THEN [field EXCEPT !.validation = SetValidation(@, validationKey, validationValue)]
        ELSE IF HasChildren(field)
        THEN [field EXCEPT !.children =
                  updateValidationRecursive(@, id, validationKey, validationValue)]
        ELSE field]

-----------------------------------------------------------------------------
(* The component and the node as a state machine *)

NoEmit == [tag |-> "none"]
NoParser == [tag |-> "none"]

\* The default of the node's schemaBuilder input (lines 46-65).
DefaultValue ==
    InMemory([arr |-> <<
        [ id |-> 1, fieldName |-> "title", fieldType |-> "string",
          description |-> "Title of the content", required |-> TRUE,
          validation |-> EmptyObject ],
        [ id |-> 2, fieldName |-> "description", fieldType |-> "string",
          description |-> "Description of the content", required |-> FALSE,
          validation |-> [maxLength |-> 500] ] >>])

\* The state after the first render of the component with the prop `v`:
\* useState([]), useState(''), both effects scheduled.
Mounted(v) ==
    /\ value = v
    /\ fields = <<>>
    /\ generatedSchema = NoPreview
    /\ shown = [fields |-> <<>>, value |-> v]
    /\ pending = {"value", "fields"}
    /\ emitted = NoEmit
    /\ parser = NoParser
    /\ now = 1
    /\ edits = 0
    /\ last = [op |-> "mount"]

\* useEffect(..., [value]) (lines 52-77).  An exception leaving the effect
\* would leave the state as it is.
ValueEffect ==
    /\ "value" \in pending
    /\ \E rnd \in RandomChoices(shown.value) :
          LET outcome == NormalizeValue(shown.value, rnd) IN
          /\ fields' = IF IsError(outcome) THEN fields ELSE outcome.setFields
          /\ last' = [op |-> "valueEffect", input |-> shown.value,
                      drawn |-> Drawn(shown.value, rnd), raised |-> IsError(outcome)]
    /\ pending' = pending \ {"value"}
    /\ UNCHANGED <<value, generatedSchema, shown, emitted, parser, now, edits>>

\* useEffect(..., [fields]) (lines 79-82): runs after the effect declared before it.
\* An exception leaving generateSchemaPreview would leave the state as it is.
PreviewEffect ==
    /\ "fields" \in pending
    /\ "value" \notin pending
    /\ LET outcome == generateSchemaPreview(shown.fields) IN
          /\ generatedSchema' = IF IsError(outcome) THEN generatedSchema ELSE outcome
          /\ last' = [op |-> "previewEffect", raised |-> IsError(outcome)]
    /\ pending' = pending \ {"fields"}
    /\ UNCHANGED <<value, fields, shown, emitted, parser, now, edits>>

\* A render that schedules the preview effect at the first render only, as
\* with an empty dependency list.
Render_PreviewOnMountOnly ==
    /\ pending = {}
    /\ shown # [fields |-> fields, value |-> value]
    /\ shown' = [fields |-> fields, value |-> value]
    /\ pending' = (IF value # shown.value THEN {"value"} ELSE {})
    /\ last' = [op |-> "render"]
    /\ UNCHANGED <<value, fields, generatedSchema, emitted, parser, now, edits>>

\* A render: the closures now see the current state and prop, and the effects
\* whose dependency changed are scheduled.
Render ==
    /\ pending = {}
    /\ shown # [fields |-> fields, value |-> value]
    /\ shown' = [fields |-> fields, value |-> value]
    /\ pending' = (IF value # shown.value THEN {"value"} ELSE {})
                  \cup (IF fields # shown.fields THEN {"fields"} ELSE {})
    /\ last' = [op |-> "render"]
    /\ UNCHANGED <<value, fields, generatedSchema, emitted, parser, now, edits>>

\* The render the handlers belong to is the latest one: an event is handled
\* after the updates of the event before it are rendered and their effects run.
Settled == pending = {} /\ shown = [fields |-> fields, value |-> value]

\* The four handlers writing their result into the tree they read, so that
\* the tree of the last render changes with it.
Commit_InPlace(updatedFields, step) ==
    /\ Settled
    /\ edits < MaxEdits
    /\ fields' = updatedFields
    /\ shown' = [shown EXCEPT !.fields = updatedFields]
    /\ emitted' = JSONStringify(updatedFields)
    /\ edits' = edits + 1
    /\ last' = step
    /\ UNCHANGED <<value, generatedSchema, pending, parser, now>>

\* The tail shared by the four handlers: setFields and onChange.  The tree the
\* handler read stays in shown.fields until the next render.
Commit(updatedFields, step) ==
    /\ Settled
    /\ edits < MaxEdits
    /\ fields' = updatedFields
    /\ emitted' = JSONStringify(updatedFields)
    /\ edits' = edits + 1
    /\ last' = step
    /\ UNCHANGED <<value, generatedSchema, shown, pending, parser, now>>

Shown == Range(Flatten(shown.fields))

\* addField() from the toolbar button (line 326)
AddRootField ==
    Commit(Append(shown.fields, NewField),
           [op |-> "addField", parentId |-> NullValue])

\* addField(field.id) from the button of an object or array field (lines 626-636);
\* a falsy parentId adds at the root (line 217).
AddChildField ==
    \E field \in Shown :
        /\ field.fieldType \in {"object", "array"}
        /\ Commit(IF field.id # 0
                  THEN addChildField(shown.fields, field.id, NewField)
                  ELSE Append(shown.fields, NewField),
                  [op |-> "addField", parentId |-> Given(field.id)])

RemoveField ==
    \E field \in Shown :
        Commit(removeFieldRecursive(shown.fields, field.id),
               [op |-> "removeField", id |-> field.id])

\* The updates the field row sends (lines 577, 589, 603, 615), over small sets.
EditNames == {"", "a"}
EditKinds == {"string", "object", "array"}
Updates ==
    {[fieldName |-> n] : n \in EditNames}
    \cup {[fieldType |-> k, validation |-> EmptyObject, children |-> <<>>] : k \in EditKinds}
    \cup {[description |-> ""]}
    \cup {[required |-> b] : b \in BOOLEAN}

UpdateField ==
    \E field \in Shown, updates \in Updates :
        Commit(updateFieldRecursive(shown.fields, field.id, updates),
               [op |-> "updateField", id |-> field.id, updates |-> updates])

\* The calls ValidationRules makes for a kind (lines 382-497), over small sets
\* of values: a number, '' for an emptied number input, a switch, a choice.
ValidationEdits(fieldType) ==
    CASE fieldType = "string" ->
           {[key |-> "minLength", n |-> MaxBound], [key |-> "minLength", cleared |-> TRUE],
            [key |-> "email", b |-> TRUE]}
      [] fieldType = "array" ->
           {[key |-> "itemType", s |-> "number"], [key |-> "minItems", n |-> 1]}
      [] OTHER -> {}

EditValue(edit) ==
    IF Has(edit, "cleared") THEN Cleared
    ELSE IF Has(edit, "n") THEN Given(edit.n)
    ELSE IF Has(edit, "b") THEN Given(edit.b)
    ELSE Given(edit.s)

UpdateValidation ==
    \E field \in Shown :
        \E edit \in ValidationEdits(field.fieldType) :
            Commit(updateValidationRecursive(shown.fields, field.id, edit.key,
                                             EditValue(edit)),
                   [op |-> "updateValidation", id |-> field.id, edit |-> edit])

\* The parent stores what onChange gave it and hands it back as the prop.
ParentEcho ==
    /\ emitted # NoEmit
    /\ value # emitted
    /\ value' = emitted
    /\ last' = [op |-> "echo"]
    /\ UNCHANGED <<fields, generatedSchema, shown, pending, emitted, parser, now, edits>>

\* The node is initialised with the stored configuration.
InitNode ==
    /\ parser' = init(value) @@ [input |-> value]
    /\ parser' # parser
    /\ last' = [op |-> "init"]
    /\ UNCHANGED <<value, fields, generatedSchema, shown, pending, emitted, now, edits>>

Tick ==
    /\ now < MaxNow
    /\ now' = now + 1
    /\ last' = [op |-> "tick"]
    /\ UNCHANGED <<value, fields, generatedSchema, shown, pending, emitted, parser, edits>>

Init == Mounted(DefaultValue)

Next ==
    \/ ValueEffect
    \/ PreviewEffect
    \/ Render
    \/ AddRootField
    \/ AddChildField
    \/ RemoveField
    \/ UpdateField
    \/ UpdateValidation
    \/ ParentEcho
    \/ InitNode
    \/ Tick

Spec == Init /\ [][Next]_vars

\* React runs a render it has scheduled and the effects of a render: none of
\* the three stays enabled forever without being run.
SpecLive ==
    /\ Init
    /\ [][Next]_vars
    /\ WF_vars(Render)
    /\ WF_vars(ValueEffect)
    /\ WF_vars(PreviewEffect)

-----------------------------------------------------------------------------
(* The stored configurations the component and the node are given *)

\* An attribute that is absent or has one of `vals`.
Opt(key, vals) == {EmptyObject} \cup {key :> v : v \in vals}

\* The constraint mappings of a string field.
StringValidations ==
    { a @@ b @@ c @@ d @@ e :
        a \in Opt("minLength", {MaxBound}),
        b \in Opt("maxLength", {MaxBound + 1}),
        c \in Opt("pattern", {"p", "("}),
        d \in Opt("email", {TRUE}),
        e \in Opt("url", {TRUE}) }

StringFields ==
    { [id |-> 1, fieldName |-> "a", fieldType |-> "string", validation |-> v] @@ r :
        v \in StringValidations, r \in Opt("required", BOOLEAN) }

\* Descriptors with any of their attributes missing; a child may be null.
PartialFields ==
    { a @@ b @@ c @@ d @@ e @@ f @@ g :
        a \in Opt("id", {0, 1}),
        b \in Opt("fieldName", {"a"}),
        c \in Opt("fieldType", {"number"}),
        d \in Opt("required", {FALSE}),
        e \in Opt("validation", {[min |-> 0]}),
        f \in Opt("description", {"d"}),
        g \in Opt("children", {<<>>, <<[fieldName |-> "b"]>>, <<NullValue>>}) }

Leaf(id, name, kind, validation) ==
    [id |-> id, fieldName |-> name, fieldType |-> kind, required |-> TRUE,
     validation |-> validation]

\* One field of every kind, with the constraints the kind reads.
KindFields ==
    { Leaf(1, "a", "number", v) :
        v \in { a @@ b @@ c : a \in Opt("min", {0}), b \in Opt("max", {MaxBound}),
                              c \in Opt("integer", {TRUE}) } }
    \cup { Leaf(1, "a", k, EmptyObject) : k \in {"boolean", "date", "object", "weird"} }
    \cup { Leaf(1, "a", k, [minLength |-> MaxBound]) : k \in {"weird", "literal", "enum"} }
    \cup { Leaf(1, "a", "enum", v) :
             v \in Opt("enumValues", {ArrayValue(<<>>), ArrayValue(<<"x", "y">>),
                                      TextValue("x"), TextValue("")}) }
    \cup { Leaf(1, "a", "literal", v) : v \in Opt("value", {"v"}) }
    \cup { Leaf(1, "a", "array", a @@ b @@ c) :
             a \in Opt("itemType", {"number", "object", "weird"}),
             b \in Opt("itemValidation", {[min |-> 1], [minLength |-> MaxBound],
                                          [email |-> TRUE, maxLength |-> MaxBound],
                                          [pattern |-> "p", minLength |-> MaxBound]}),
             c \in Opt("minItems", {1}) }

Child(id, parentId, name, kind) ==
    [id |-> id, parentId |-> parentId, fieldName |-> name, fieldType |-> kind,
     required |-> TRUE, validation |-> EmptyObject]

\* Flat lists whose elements name their parent by parentId.
FlatLists ==
    { <<Leaf(1, "a", k, EmptyObject), Child(2, 1, "b", "string")>> :
        k \in {"object", "array"} }
    \cup { <<Leaf(1, "a", "object", EmptyObject), Child(2, 1, "b", k),
             Child(3, 2, "c", "number")>> : k \in {"object", "array"} }
    \cup { <<Child(2, 1, "b", "string"), Leaf(1, "a", "object", EmptyObject)>>,
           <<Leaf(1, "a", "object", EmptyObject), Child(2, 3, "b", "string")>>,
           <<[fieldName |-> "a", fieldType |-> "object"]>>,
           <<Leaf(1, "a", "object", EmptyObject),
             [Child(2, 1, "b", "string") EXCEPT
                 !.validation = [email |-> TRUE, minLength |-> MaxBound, pattern |-> "p"]],
             [Child(3, 1, "c", "string") EXCEPT
                 !.validation = [maxLength |-> MaxBound, pattern |-> "p"]]>>,
           <<Leaf(1, "a", "string", EmptyObject), Leaf(2, "a", "number", EmptyObject)>> }
    \cup { <<Leaf(1, "a", k, EmptyObject), Child(2, 1, "b", "string"),
             Child(3, 1, "b", "number")>> : k \in {"object", "array"} }
    \cup { <<Leaf(1, "a", "object", EmptyObject),
             [Child(2, 1, "b", k) EXCEPT !.validation = [maxLength |-> MaxBound]]>> :
             k \in {"weird", "enum", "literal"} }

Nested(id, name, kind, required, children) ==
    [id |-> id, fieldName |-> name, fieldType |-> kind, description |-> "",
     required |-> required, validation |-> EmptyObject, children |-> children]

\* Trees in the nested form the editor keeps.
NestedTrees ==
    { <<Nested(1, "a", k, TRUE, <<Nested(2, n, "string", r, <<>>)>>)>> :
        k \in {"object", "array", "string"}, n \in {"", "b"}, r \in BOOLEAN }
    \cup { <<Nested(1, "a", "object", TRUE,
                <<Nested(2, "b", k, TRUE, <<Nested(3, "c", "number", TRUE, <<>>)>>)>>)>> :
             k \in {"object", "array"} }
    \cup { <<Nested(1, "a", k, TRUE,
                <<[Nested(2, n, "enum", TRUE, <<>>) EXCEPT
                      !.validation = [enumValues |-> TextValue("x")]]>>)>> :
             k \in {"object", "array", "string"}, n \in {"", "b"} }
    \cup { <<Nested(1, "a", "object", TRUE,
                <<[Nested(2, "b", k, TRUE, <<>>) EXCEPT
                      !.validation = [maxLength |-> MaxBound]]>>)>> :
             k \in {"weird", "enum", "literal"} }
    \cup { <<Nested(1, "a", k, TRUE, <<Nested(2, "b", "string", TRUE, <<>>),
                                      Nested(3, "b", "number", TRUE, <<>>)>>)>> :
             k \in {"object", "array"} }
    \cup { <<Nested(1, "", "string", TRUE, <<>>)>>,
           <<Nested(1, "a", "object", TRUE,
                <<[Nested(2, "b", "string", TRUE, <<>>) EXCEPT
                      !.validation = [url |-> TRUE, maxLength |-> MaxBound]]>>)>> }

NotAnArray == [object |-> TRUE]
BadText == [tag |-> "text", valid |-> FALSE]

Inputs ==
    { InMemory([arr |-> <<f>>]) : f \in StringFields \cup PartialFields \cup KindFields }
    \cup { InMemory([arr |-> l]) : l \in FlatLists \cup NestedTrees }
    \cup { JSONStringify(l) : l \in FlatLists \cup NestedTrees }
    \cup { InMemory([arr |-> l]) : l \in {<<>>, <<NullValue>>,
                                         <<Leaf(1, "a", "string", EmptyObject), NullValue>>} }
    \cup { BadText, InMemory(NotAnArray), InMemory(NullValue),
           [tag |-> "text", valid |-> TRUE, json |-> NotAnArray] }

\* The component and the node given any of the stored configurations; no edit.
InitInputs == \E v \in Inputs : Mounted(v)

NextInputs ==
    \/ ValueEffect
    \/ PreviewEffect
    \/ Render
    \/ InitNode
    \/ Tick

SpecInputs == InitInputs /\ [][NextInputs]_vars

\* Trees the editor emitted earlier, given back to it when it is mounted
\* again: a field with a child, and a field added at the value the clock has
\* now (Date.now() is the wall clock) and then made an object.
EmittedTrees ==
    { <<Nested(1, "a", "object", TRUE, <<Nested(2, "b", "string", TRUE, <<>>)>>)>>,
      <<Nested(1, "a", "array", TRUE, <<Nested(2, "b", "string", TRUE, <<>>)>>)>>,
      <<Nested(TimeUnit, "field_" \o ToString(TimeUnit), "object", TRUE, <<>>)>> }

\* The editor mounted on one of these trees, and edited.
InitTrees == \E tree \in EmittedTrees : Mounted(JSONStringify(tree))

SpecTrees == InitTrees /\ [][Next]_vars

-----------------------------------------------------------------------------
(* What the claims speak of *)

\* The schema an expression of the preview text denotes when it is read as
\* zod source: each token is the call it spells.  An object literal with an
\* empty key is no expression; a call `z.<name>()` is defined for the
\* primitive kinds only.
RECURSIVE EvalCode(_)
EvalCode(code) ==
    LET Base(token) ==
            CASE token.tok = "z.string()" -> ZString
              [] token.tok = "z.number()" -> ZNumber
              [] token.tok = "z.boolean()" -> ZBoolean
              [] token.tok = "z.date()" -> ZDate
              [] token.tok = "z.array(" ->
                   LET item == EvalCode(token.item)
                   IN IF IsError(item) THEN item ELSE ZArray(item)
              [] token.tok = "z.enum([" -> ZEnum(token.values)
              [] token.tok = "z.literal('" -> ZLiteral(token.value)
              [] token.tok = "z.object({" ->
                   LET props == token.props
                       schemas == [i \in DOMAIN props |-> EvalCode(props[i].code)]
                       keys == {props[i].name : i \in DOMAIN props}
                       Last(k) == CHOOSE i \in DOMAIN props :
                                    /\ props[i].name = k
                                    /\ \A j \in DOMAIN props : props[j].name = k => j <= i
                   IN IF "" \in keys THEN SyntaxError
                      ELSE IF FirstError(schemas) # <<>> THEN FirstError(schemas)
                      ELSE ZObject([k \in keys |-> schemas[Last(k)]])
              [] OTHER -> TypeError
        Call(schema, token) ==
            CASE token.tok = ".min(" -> AddCheck(schema, [kind |-> "min", n |-> token.n])
              [] token.tok = ".max(" -> AddCheck(schema, [kind |-> "max", n |-> token.n])
              [] token.tok = ".regex(/" ->
                   AddCheck(schema, [kind |-> "regex", pattern |-> token.pattern])
              [] token.tok = ".email()" -> AddCheck(schema, [kind |-> "email"])
              [] token.tok = ".url()" -> AddCheck(schema, [kind |-> "url"])
              [] token.tok = ".int()" -> AddCheck(schema, [kind |-> "int"])
              [] token.tok = ".optional()" -> Optional(schema)
              [] token.tok = ".describe('" -> Describe(schema, token.text)
              [] OTHER -> TypeError
    IN IF Len(code) = 1 THEN Base(code[1])
       ELSE LET receiver == EvalCode(SubSeq(code, 1, Len(code) - 1))
            IN IF IsError(receiver) THEN receiver
               ELSE Call(receiver, code[Len(code)])

\* The schema under the ZodOptional wrappers.
RECURSIVE Unwrap(_)
Unwrap(schema) == IF schema.t = "optional" THEN Unwrap(schema.inner) ELSE schema

\* Whether a schema accepts the absence of the value.
AcceptsAbsent(schema) == schema.t = "optional"

\* The shape a schema enforces: its rule, its constraints, whether it accepts
\* absence, and the shapes of its named children or of its elements.  The
\* description is not part of it.
RECURSIVE ShapeOf(_)
ShapeOf(schema) ==
    LET s == Unwrap(schema)
        rule == [rule |-> s.t, optional |-> AcceptsAbsent(schema)]
    IN CASE s.t \in {"string", "number"} -> rule @@ [checks |-> s.checks]
         [] s.t = "array" -> rule @@ [checks |-> s.checks, element |-> ShapeOf(s.element)]
         [] s.t = "object" ->
              rule @@ [children |-> [k \in DOMAIN s.shape |-> ShapeOf(s.shape[k])]]
         [] s.t = "enum" -> rule @@ [values |-> s.values]
         [] s.t = "literal" -> rule @@ [value |-> s.value]
         [] OTHER -> rule

\* A configuration that is a sequence of descriptors (no element is null).
IsDescriptorList(v) ==
    LET json == JSONParse(v)
    IN ~IsError(json) /\ IsArray(json) /\ NullValue \notin Range(json.arr)

\* The elements of a configuration that is a sequence of descriptors.
Elements(v) == JSONParse(v).arr

\* A tree in the nested form whose names are non-empty and distinct among
\* siblings and whose children sit under object and array fields only.
RECURSIVE ValidTree(_)
ValidTree(tree) ==
    /\ \A i \in DOMAIN tree :
          /\ tree[i].fieldName # ""
          /\ \A j \in DOMAIN tree : tree[j].fieldName = tree[i].fieldName => j = i
          /\ HasChildren(tree[i]) => tree[i].fieldType \in {"object", "array"}
          /\ ValidTree(tree[i].children)

\* The node was initialised with the tree the editor holds, and the preview on
\* display is the one of that tree.
SameTreeCompiledAndShown ==
    /\ parser.tag = "parser"
    /\ parser.input = value
    /\ IsDescriptorList(value)
    /\ Elements(value) = fields
    /\ Settled
    /\ generatedSchema.kind = "code"

\* C1: for every descriptor tree, the preview text describes the shape the
\* compiled validator enforces: at every depth the same rule, the same
\* constraints, the same optional flag and the same named children.
C1_PreviewDescribesCompiledShape ==
    (SameTreeCompiledAndShown /\ ValidTree(fields)) =>
        LET described == EvalCode(generatedSchema.code)
        IN /\ ~IsError(described)
           /\ ShapeOf(described) = ShapeOf(parser.schema)

\* The object schemas compiled for the object and array fields of `descs`, a
\* list of sibling descriptors compiled into objectSchema, hold exactly the
\* children of these fields, at every depth.
RECURSIVE ChildrenCompiled(_, _)
ChildrenCompiled(descs, objectSchema) ==
    \A i \in DOMAIN descs :
        LET field == descs[i]
            isLast == \A j \in DOMAIN descs : KeyOf(descs[j]) = KeyOf(field) => j <= i
            compiled == Unwrap(objectSchema.shape[KeyOf(field)])
            holder == IF field.fieldType = "array" THEN compiled.element ELSE compiled
        IN (isLast /\ field.fieldType \in {"object", "array"} /\ HasChildren(field)) =>
              /\ field.fieldType = "array" => compiled.t = "array"
              /\ holder.t = "object"
              /\ DOMAIN holder.shape = {KeyOf(child) : child \in Range(field.children)}
              /\ ChildrenCompiled(field.children, holder)

\* C2: compiling a tree the editor emitted gives, for each object or array
\* field with at least one child, the compiled object of exactly those
\* children; the empty shape only for a field without children.
C2_EmittedChildrenAreCompiled ==
    (emitted # NoEmit /\ parser.tag = "parser" /\ parser.input = emitted) =>
        ChildrenCompiled(Elements(emitted), parser.schema)

\* The descriptors the compiler visited below objectSchema, each with the
\* schema entered for it: the fields of `descs` that own their key, their
\* children by parentId, and the item of an array field without children.
RECURSIVE CompiledPairs(_, _, _)
RECURSIVE CompiledItem(_, _, _)
CompiledPairs(descs, allFields, objectSchema) ==
    UNION { LET field == descs[i]
                isLast == \A j \in DOMAIN descs :
                             KeyOf(descs[j]) = KeyOf(field) => j <= i
                entry == objectSchema.shape[KeyOf(field)]
            IN IF isLast
               THEN {[at |-> "field", field |-> field, schema |-> entry]}
                    \cup CompiledItem(field, allFields, Unwrap(entry))
               ELSE {}
          : i \in DOMAIN descs }

CompiledItem(field, allFields, schema) ==
    LET childFields == SelectSeq(allFields, LAMBDA f : IsChildOf(f, field))
        validation == ValidationOf(field)
        item == [fieldType  |-> IF TruthyString(validation, "itemType")
                                THEN validation.itemType ELSE "string",
                 validation |-> IF Has(validation, "itemValidation")
                                THEN validation.itemValidation ELSE EmptyObject]
    IN CASE FieldTypeOf(field) = "object" /\ Len(childFields) > 0 ->
              CompiledPairs(childFields, allFields, schema)
         [] FieldTypeOf(field) = "array" /\ Len(childFields) > 0 ->
              CompiledPairs(childFields, allFields, schema.element)
         [] FieldTypeOf(field) = "array" ->
              {[at |-> "item", field |-> item, schema |-> schema.element]}
              \cup CompiledItem(item, allFields, schema.element)
         [] OTHER -> {}

\* The pairs of the parser the node holds.
Compiled ==
    LET allFields == Elements(parser.input)
    IN CompiledPairs(SelectSeq(allFields, LAMBDA f : ~TruthyNumber(f, "parentId")),
                     allFields, parser.schema)

\* The code of a property without its `.describe('...')` and `.optional()` suffix.
RECURSIVE TypeCode(_)
TypeCode(code) ==
    IF Len(code) > 1 /\ code[Len(code)].tok \in {".optional()", ".describe('"}
    THEN TypeCode(SubSeq(code, 1, Len(code) - 1))
    ELSE code

\* The fields the preview generator rendered into the properties `props`,
\* each with the code of its type; `named` tells whether the fields with an
\* empty name were left out.
RECURSIVE RenderedPairs(_, _, _)
RenderedPairs(tree, props, named) ==
    LET kept == IF named
                THEN SelectSeq(tree, LAMBDA f : TruthyString(f, "fieldName"))
                ELSE tree
    IN UNION { LET field == kept[i]
                   code == TypeCode(props[i].code)
               IN {[field |-> field, code |-> code]}
                  \cup (IF HasChildren(field) /\ field.fieldType = "object"
                        THEN RenderedPairs(field.children, code[1].props, TRUE)
                        ELSE IF HasChildren(field) /\ field.fieldType = "array"
                        THEN RenderedPairs(field.children, code[1].item[1].props, TRUE)
                        ELSE {})
             : i \in DOMAIN kept }

\* The preview effect has just run: generatedSchema is the text of shown.fields.
PreviewJustRun == last.op = "previewEffect" /\ generatedSchema.kind = "code"

Rendered == RenderedPairs(shown.fields, generatedSchema.code[1].props, FALSE)

IsString(field) == FieldTypeOf(field) = "string"
OverridingCheck(validation) ==
    IF TruthyBoolean(validation, "url") THEN "url" ELSE "email"
Overridden(field) ==
    /\ IsString(field)
    /\ TruthyBoolean(ValidationOf(field), "email") \/ TruthyBoolean(ValidationOf(field), "url")

\* C4: for a string field with email or url set, the compiled validator and
\* the preview hold the email (or url) check alone, whatever minLength,
\* maxLength and pattern are set; with both set, the url check alone.
C4_EmailUrlOverride ==
    /\ parser.tag = "parser" =>
          \A p \in Compiled :
              Overridden(p.field) =>
                  Unwrap(p.schema) =
                      AddCheck(ZString, [kind |-> OverridingCheck(ValidationOf(p.field))])
    /\ PreviewJustRun =>
          \A p \in Rendered :
              Overridden(p.field) =>
                  p.code = <<ZCall("string"),
                             Tok("." \o OverridingCheck(ValidationOf(p.field)) \o "()")>>

\* A string field with email and a length bound, compiled and rendered.
C4_Witness ==
    /\ parser.tag = "parser"
    /\ PreviewJustRun
    /\ \E p \in Compiled :
          /\ Overridden(p.field)
          /\ Has(p.field.validation, "maxLength")
          /\ Has(p.field.validation, "pattern")
    /\ \E p \in Rendered :
          /\ Overridden(p.field)
          /\ Has(p.field.validation, "maxLength")

PatternAndBounds(field) ==
    /\ IsString(field)
    /\ ~Overridden(field)
    /\ TruthyString(ValidationOf(field), "pattern")
    /\ TruthyNumber(ValidationOf(field), "minLength")
          \/ TruthyNumber(ValidationOf(field), "maxLength")

\* C5 as stated: with a pattern and length bounds set, and neither email nor
\* url, the compiled validator holds the pattern check alone.
C5_PatternOverridesBounds ==
    parser.tag = "parser" =>
        \A p \in Compiled :
            PatternAndBounds(p.field) =>
                Unwrap(p.schema).checks =
                    <<[kind |-> "regex", pattern |-> ValidationOf(p.field).pattern]>>

\* The checks of a string field: the url check alone, else the email check
\* alone, else the minLength, maxLength and pattern checks that are set, in
\* this order, together.
StringChecks(validation) ==
    IF TruthyBoolean(validation, "url") THEN <<[kind |-> "url"]>>
    ELSE IF TruthyBoolean(validation, "email") THEN <<[kind |-> "email"]>>
    ELSE (IF TruthyNumber(validation, "minLength")
          THEN <<[kind |-> "min", n |-> validation.minLength]>> ELSE <<>>)
         \o (IF TruthyNumber(validation, "maxLength")
             THEN <<[kind |-> "max", n |-> validation.maxLength]>> ELSE <<>>)
         \o (IF TruthyString(validation, "pattern")
             THEN <<[kind |-> "regex", pattern |-> validation.pattern]>> ELSE <<>>)

\* C5 amended: minLength, maxLength and pattern are applied in this order and
\* compose; only email and url replace the checks set before them.
C5_BoundsAndPatternCompose ==
    parser.tag = "parser" =>
        \A p \in Compiled :
            IsString(p.field) =>
                /\ Unwrap(p.schema).t = "string"
                /\ Unwrap(p.schema).checks = StringChecks(ValidationOf(p.field))

\* A string field with a pattern and both length bounds was compiled.
C5_Witness ==
    /\ parser.tag = "parser"
    /\ \E p \in Compiled :
          /\ PatternAndBounds(p.field)
          /\ Len(Unwrap(p.schema).checks) = 3

\* C6 as stated: a descriptor without `required` is compiled as a required
\* field, and only a descriptor whose `required` is false is compiled as one
\* whose absence is accepted.
C6_MissingRequiredIsRequired ==
    parser.tag = "parser" =>
        \A p \in Compiled :
            p.at = "field" =>
                /\ ~Has(p.field, "required") => ~AcceptsAbsent(p.schema)
                /\ AcceptsAbsent(p.schema) =>
                      (Has(p.field, "required") /\ ~p.field.required)

\* A sequence of descriptors that all have an id, whose object and array
\* fields are found among the parents only by that id, and whose array items
\* are of a primitive kind.
PlainDescriptorList(v) ==
    /\ IsDescriptorList(v)
    /\ \A f \in Range(Elements(v)) :
          /\ TruthyNumber(f, "id")
          /\ Has(ValidationOf(f), "itemType") =>
                ValidationOf(f).itemType \in {"string", "number", "boolean"}

\* C10 as stated: init raises only when its input is not a sequence of
\* descriptors; for every sequence of descriptors, an invalid pattern among
\* its constraints included, it returns a parser.
C10_CompilationRaisesOnlyOnShape ==
    (parser.tag # "none" /\ PlainDescriptorList(parser.input)) => parser.tag = "parser"

\* No descriptor of the tree, at any depth, is null.
RECURSIVE NoNull(_)
NoNull(seq) ==
    \A i \in DOMAIN seq :
        /\ seq[i] # NullValue
        /\ Has(seq[i], "children") => NoNull(seq[i].children)

\* The value effect has just run on a sequence of descriptors.
Normalized ==
    /\ last.op = "valueEffect"
    /\ IsDescriptorList(last.input)
    /\ NoNull(Elements(last.input))

Ids(tree) == [i \in DOMAIN Flatten(tree) |-> Flatten(tree)[i].id]

\* The <<parent id, child id>> links of a tree, one for each child slot.
Links(tree) ==
    LET flat == Flatten(tree)
    IN { <<i, j>> \in (DOMAIN flat) \X (1 .. Len(flat)) :
            j \in DOMAIN flat[i].children }

\* C3 as stated: a flat list whose elements carry a parent reference is
\* normalized into the nested form: the elements without a parent reference
\* are the root fields, and every other element appears exactly once, among
\* the children of the descriptor whose id is its parent reference.
C3_FlatListBecomesNested ==
    LET elements == Elements(last.input)
        flat == Flatten(fields)
    IN (/\ Normalized
        /\ \E e \in Range(elements) : Has(e, "parentId")
        /\ \A e \in Range(elements) :
              /\ TruthyNumber(e, "id")
              /\ Has(e, "parentId") => \E q \in Range(elements) : q.id = e.parentId)
       =>
       /\ [i \in DOMAIN fields |-> fields[i].id]
            = [i \in DOMAIN SelectSeq(elements, LAMBDA e : ~Has(e, "parentId")) |->
                 SelectSeq(elements, LAMBDA e : ~Has(e, "parentId"))[i].id]
       /\ \A e \in Range(elements) :
             Has(e, "parentId") =>
                 /\ Cardinality({l \in Links(fields) :
                                    flat[l[1]].children[l[2]].id = e.id}) = 1
                 /\ \E l \in Links(fields) :
                       /\ flat[l[1]].children[l[2]].id = e.id
                       /\ flat[l[1]].id = e.parentId

\* `field` of the input is normalized into `out`: every present attribute
\* kept, every missing one filled with its default, at every depth.
RECURSIVE FilledFrom(_, _, _)
FilledFrom(field, out, tree) ==
    /\ IF Has(field, "id")
       THEN out.id = field.id
       ELSE Cardinality({i \in DOMAIN Ids(tree) : Ids(tree)[i] = out.id}) = 1
    /\ out.fieldName = (IF Has(field, "fieldName") THEN field.fieldName ELSE "")
    /\ out.fieldType = (IF Has(field, "fieldType") THEN field.fieldType ELSE "string")
    /\ out.required = (IF Has(field, "required") THEN field.required ELSE TRUE)
    /\ out.validation = (IF Has(field, "validation") THEN field.validation ELSE EmptyObject)
    /\ IF Has(field, "children")
       THEN /\ Len(out.children) = Len(field.children)
            /\ \A i \in DOMAIN field.children :
                  FilledFrom(field.children[i], out.children[i], tree)
       ELSE out.children = <<>>

\* Math.random() returned a different value at each of its calls.
DistinctDraws ==
    \A p, q \in DOMAIN last.drawn : last.drawn[p] = last.drawn[q] => p = q

\* C7 as stated: normalization fills exactly the missing attributes, with a
\* fresh id unique in the tree, "", `string`, true, {} and [], and returns
\* what is present unchanged, an id 0 and required=false included.
C7_FillsOnlyTheMissing ==
    (Normalized /\ DistinctDraws) =>
        /\ Len(fields) = Len(Elements(last.input))
        /\ \A i \in DOMAIN fields :
              FilledFrom(Elements(last.input)[i], fields[i], fields)

\* A tree of descriptors that have all their attributes.
RECURSIVE IsFieldTree(_)
IsFieldTree(tree) ==
    \A i \in DOMAIN tree :
        /\ DOMAIN tree[i] = {"id", "fieldName", "fieldType", "description",
                             "required", "validation", "children"}
        /\ IsFieldTree(tree[i].children)

\* C8: the value effect raises nothing and leaves a field tree, whatever the
\* value is; the empty tree when the value does not decode or is no sequence.
C8_NormalizationIsTotal ==
    last.op = "valueEffect" =>
        /\ ~last.raised
        /\ IsFieldTree(fields)
        /\ ~IsDescriptorList(last.input) => fields = <<>>

\* The effect ran on text that does not decode, on a value that is no
\* sequence, or on a sequence with a null element.
C8_Witness ==
    /\ last.op = "valueEffect"
    /\ ~IsDescriptorList(last.input)
    /\ last.input.tag = "value"
    /\ IsArray(JSONParse(last.input))
    /\ Len(JSONParse(last.input).arr) = 2

\* C9: normalizing the result of a normalization again returns that result,
\* its ids included, whatever Math.random() returns the second time.
C9_NormalizationIsIdempotent ==
    last.op = "valueEffect" =>
        LET again == InMemory([arr |-> fields])
        IN \A rnd \in RandomChoices(again) :
               NormalizeValue(again, rnd) = SetFields(fields)

\* The effect ran on descriptors with missing attributes and kept an id.
C9_Witness ==
    /\ Normalized
    /\ \E i \in DOMAIN fields :
          /\ DOMAIN Elements(last.input)[i] = {"id", "children"}
          /\ fields[i].id = 1
          /\ Len(fields[i].children) = 1

-----------------------------------------------------------------------------
(* Errors of init *)

\* Text that does not decode.
Undecodable(v) == v.tag = "text" /\ ~v.valid

\* A value that decodes (or needs no decoding) and is no sequence of
\* descriptors: no array, or an array with a null element.
NotADescriptorList(v) == ~Undecodable(v) /\ ~IsDescriptorList(v)

\* C11: init ends with an error both for text that does not decode and for a
\* value that is no sequence of descriptors, and the error raised for the one
\* differs from every error raised for the other.
C11_DecodeAndShapeErrorsDiffer ==
    parser.tag # "none" =>
        /\ (Undecodable(parser.input) \/ NotADescriptorList(parser.input)) =>
               parser.tag = "error"
        /\ Undecodable(parser.input) =>
               \A v \in Inputs :
                   NotADescriptorList(v) => init(v).exception # parser.exception
        /\ NotADescriptorList(parser.input) =>
               \A v \in Inputs :
                   Undecodable(v) => init(v).exception # parser.exception

\* init ended with an error on text that decodes to a value that is no array.
C11_Witness ==
    /\ parser.tag = "error"
    /\ parser.input.tag = "text"
    /\ NotADescriptorList(parser.input)
    /\ \E v \in Inputs : Undecodable(v)

-----------------------------------------------------------------------------
(* Termination of the compiler *)

\* C12 as stated: the compilation of a sequence of descriptors comes to an
\* end with each descriptor visited a bounded number of times, also for
\* descriptors without an id and for an array whose itemType is no primitive
\* kind: createZodFieldFromConfig is never entered for a descriptor whose own
\* call is still in progress (which the engine ends by a RangeError).
C12_CompilationTerminates ==
    (parser.tag # "none" /\ IsDescriptorList(parser.input)) =>
        ~(parser.tag = "error" /\ parser.exception = "RangeError")

-----------------------------------------------------------------------------
(* Identity of the descriptors in the editor *)

\* C13 as stated: in every state the editor reaches by its operations, the
\* ids of the descriptors of the tree are pairwise distinct (so that an id
\* given once is not given to a descriptor added later).
C13_IdsAreUnique ==
    \A i, j \in DOMAIN Ids(fields) : Ids(fields)[i] = Ids(fields)[j] => i = j

-----------------------------------------------------------------------------
(* The preview follows the tree *)

EditOps == {"addField", "removeField", "updateField", "updateValidation"}

\* The preview on display is the text of the tree the editor holds.
PreviewInSync == generatedSchema = generateSchemaPreview(fields)

\* C14: after every edit, and after every new value, the preview on display
\* eventually is the text of the current tree, and it stays so once the edits
\* have come to an end; the value an edit hands to onChange is the
\* serialization of the tree the editor holds, from which the preview is made.
C14_PreviewFollowsTheTree ==
    /\ (last.op \in EditOps \cup {"echo"}) ~> PreviewInSync
    /\ <>[]PreviewInSync
    /\ [](last.op \in EditOps => emitted = JSONStringify(fields))

\* After the last edit the model allows, an add under a parent, the preview
\* was made again and shows the tree handed to onChange.
C14_Witness ==
    /\ edits = MaxEdits
    /\ last.op = "previewEffect"
    /\ PreviewInSync
    /\ emitted = JSONStringify(fields)
    /\ \E f \in Range(fields) : HasChildren(f)

-----------------------------------------------------------------------------
(* Errors of the preview generator *)

\* The fields generateFieldTypeCode is called for: the root fields, and the
\* named children of the object and array fields among them, at every depth.
RECURSIVE RenderedFields(_)
RenderedFields(tree) ==
    UNION { {tree[i]}
            \cup (IF HasChildren(tree[i]) /\ tree[i].fieldType \in {"object", "array"}
                  THEN RenderedFields(SelectSeq(tree[i].children,
                                                LAMBDA c : TruthyString(c, "fieldName")))
                  ELSE {})
          : i \in DOMAIN tree }

\* An enum field whose enumValues is a non-empty string, not a sequence.
EnumValuesIsText(field) ==
    /\ field.fieldType = "enum"
    /\ Has(field.validation, "enumValues")
    /\ IsText(field.validation.enumValues)
    /\ field.validation.enumValues.text # ""

\* C15: generateSchemaPreview raises nothing and sets the preview to a text,
\* whatever the field tree is: to the fixed placeholder when the rendering of
\* one of its fields fails (an enumValues that is no sequence), to the code of
\* the tree otherwise.
C15_PreviewNeverRaises ==
    last.op = "previewEffect" =>
        /\ ~last.raised
        /\ generatedSchema.kind \in {"code", "text"}
        /\ generatedSchema = ErrorPlaceholder
              <=> \E f \in RenderedFields(shown.fields) : EnumValuesIsText(f)

\* The preview effect ran on a tree with a child whose enumValues is a string.
C15_Witness ==
    /\ last.op = "previewEffect"
    /\ generatedSchema = ErrorPlaceholder
    /\ \E f \in Range(shown.fields) :
          /\ ~EnumValuesIsText(f)
          /\ \E c \in Range(f.children) : EnumValuesIsText(c)

-----------------------------------------------------------------------------
(* The fallback to the string rule *)

Kinds == {"string", "number", "boolean", "array", "object", "enum", "date", "literal"}

\* A descriptor of no recognized kind, an enum descriptor without enumValues
\* or with none, a literal descriptor without value.
FallsBack(field) ==
    LET validation == ValidationOf(field) IN
    \/ FieldTypeOf(field) \notin Kinds
    \/ /\ FieldTypeOf(field) = "enum"
       /\ ~Has(validation, "enumValues") \/ validation.enumValues = ArrayValue(<<>>)
    \/ /\ FieldTypeOf(field) = "literal"
       /\ ~Has(validation, "value")

\* C16: a descriptor of no recognized kind, an enum descriptor whose
\* enumValues is absent or empty and a literal descriptor whose value is
\* absent are compiled to the string rule without any constraint and rendered
\* as `z.string()`, and neither pass raises an error for them.
C16_FallbackToString ==
    /\ (/\ parser.tag # "none"
        /\ IsDescriptorList(parser.input)
        /\ \A f \in Range(Elements(parser.input)) :
              FallsBack(f) /\ ~Has(f, "parentId")) =>
           parser.tag = "parser"
    /\ parser.tag = "parser" =>
          \A p \in Compiled :
              (p.at = "field" /\ FallsBack(p.field)) =>
                  /\ Unwrap(p.schema).t = "string"
                  /\ Unwrap(p.schema).checks = <<>>
    /\ (/\ last.op = "previewEffect"
        /\ \A f \in RenderedFields(shown.fields) : FallsBack(f)) =>
           generatedSchema.kind = "code"
    /\ PreviewJustRun =>
          \A p \in Rendered :
              FallsBack(p.field) => p.code = <<ZCall("string")>>

\* A child of no recognized kind that carries a length bound was compiled,
\* and a field of no recognized kind that carries one was rendered.
C16_Witness ==
    /\ parser.tag = "parser"
    /\ PreviewJustRun
    /\ \E p \in Compiled :
          /\ p.at = "field"
          /\ FieldTypeOf(p.field) = "weird"
          /\ Has(p.field, "parentId")
          /\ Has(ValidationOf(p.field), "maxLength")
    /\ \E p \in Rendered :
          FieldTypeOf(p.field) = "weird" /\ Has(p.field.validation, "maxLength")

-----------------------------------------------------------------------------
(* Array fields *)

PrimitiveKinds == {"string", "number", "boolean", "date"}

ItemTypeOf(validation) ==
    IF TruthyString(validation, "itemType") THEN validation.itemType ELSE "string"

ItemValidationOf(validation) ==
    IF Has(validation, "itemValidation") THEN validation.itemValidation ELSE EmptyObject

\* The rule of the primitive kind itemType with the constraints of
\* itemValidation.
ItemRule(validation) ==
    CASE ItemTypeOf(validation) = "string" -> StringSchema(ItemValidationOf(validation))
      [] ItemTypeOf(validation) = "number" -> NumberSchema(ItemValidationOf(validation))
      [] ItemTypeOf(validation) = "boolean" -> ZBoolean
      [] ItemTypeOf(validation) = "date" -> ZDate

\* The minItems and maxItems bounds of an array field.
ItemBounds(validation) ==
    (IF TruthyNumber(validation, "minItems")
     THEN <<[kind |-> "min", n |-> validation.minItems]>> ELSE <<>>)
    \o (IF TruthyNumber(validation, "maxItems")
        THEN <<[kind |-> "max", n |-> validation.maxItems]>> ELSE <<>>)

\* C17 as stated: for an array field without children whose itemType is a
\* primitive kind (or absent), the compiled validator and the preview both
\* hold an array of that kind with the constraints of itemValidation, bounded
\* by minItems and maxItems; for an array field with children, an array of
\* the object of its children.
C17_ArrayItemsAgree ==
    /\ parser.tag = "parser" =>
          \A p \in Compiled :
              (/\ p.at = "field"
               /\ FieldTypeOf(p.field) = "array"
               /\ ItemTypeOf(ValidationOf(p.field)) \in PrimitiveKinds) =>
                  LET compiled == Unwrap(p.schema)
                      childFields == SelectSeq(Elements(parser.input),
                                               LAMBDA f : IsChildOf(f, p.field))
                  IN /\ compiled.t = "array"
                     /\ compiled.checks = ItemBounds(ValidationOf(p.field))
                     /\ IF Len(childFields) > 0
                        THEN compiled.element.t = "object"
                        ELSE compiled.element = ItemRule(ValidationOf(p.field))
    /\ PreviewJustRun =>
          \A p \in Rendered :
              (/\ p.field.fieldType = "array"
               /\ ItemTypeOf(p.field.validation) \in PrimitiveKinds) =>
                  LET described == EvalCode(p.code)
                  IN /\ ~IsError(described)
                     /\ described.t = "array"
                     /\ described.checks = ItemBounds(p.field.validation)
                     /\ IF HasChildren(p.field)
                        THEN described.element.t = "object"
                        ELSE described.element = ItemRule(p.field.validation)

-----------------------------------------------------------------------------
(* The operations leave their input as it is *)

-----------------------------------------------------------------------------
(* Children sit under object and array fields *)

\* Every descriptor of the tree with a child is of kind object or array.
ChildrenUnderContainersOnly(tree) ==
    \A f \in Range(Flatten(tree)) :
        HasChildren(f) => f.fieldType \in {"object", "array"}

\* C19 as stated: in every state the editor reaches by its operations from a
\* tree in which only object and array fields have children, only object and
\* array fields have children.
C19_ChildrenUnderContainersOnly == ChildrenUnderContainersOnly(fields)

-----------------------------------------------------------------------------
(* Siblings of the same name *)

\* The root descriptors the compiler reads from the configuration.
RootFields(v) == SelectSeq(Elements(v), LAMBDA f : ~TruthyNumber(f, "parentId"))

\* The i-th of `descs` is the last of its name among them.
LastOfItsName(descs, i) ==
    \A j \in DOMAIN descs : KeyOf(descs[j]) = KeyOf(descs[i]) => j <= i

LastSiblingWins(siblings, holder) ==
    /\ holder.t = "object"
    /\ DOMAIN holder.shape = {KeyOf(f) : f \in Range(siblings)}
    /\ \A i \in DOMAIN siblings :
          (LastOfItsName(siblings, i) /\ FieldTypeOf(siblings[i]) \in PrimitiveKinds) =>
              Unwrap(holder.shape[KeyOf(siblings[i])]).t = FieldTypeOf(siblings[i])

\* The properties `props` of an object in the preview are one entry for each
\* of `siblings`, in their order; read as the source of an object, they
\* denote the object in which the last sibling of a name wins.
EverySiblingListed(siblings, props) ==
    /\ Len(props) = Len(siblings)
    /\ \A i \in DOMAIN siblings :
          /\ props[i].name = siblings[i].fieldName
          /\ siblings[i].fieldType \in PrimitiveKinds =>
                TypeCode(props[i].code)[1] = ZCall(siblings[i].fieldType)
    /\ (\A f \in Range(siblings) :
            f.fieldName # "" /\ f.fieldType \in PrimitiveKinds) =>
          LastSiblingWins(siblings, EvalCode(<<ObjectTok(props)>>))

\* The properties of the object the preview shows for the children of an
\* object or array field.
ChildProps(code, fieldType) ==
    IF fieldType = "array" THEN code[1].item[1].props ELSE code[1].props

-----------------------------------------------------------------------------
(* The frame of removeField *)

\* The tree without the descriptor at `path` and its subtree; every other
\* descriptor as it is and in its place.
RECURSIVE WithoutSubtree(_, _)
WithoutSubtree(tree, path) ==
    IF Len(path) = 1
    THEN SubSeq(tree, 1, path[1] - 1) \o SubSeq(tree, path[1] + 1, Len(tree))
    ELSE [tree EXCEPT ![path[1]].children = WithoutSubtree(@, Tail(path))]

\* The descriptor of a tree at a path.
RECURSIVE DescriptorAt(_, _)
DescriptorAt(tree, path) ==
    IF Len(path) = 1 THEN tree[path[1]]
    ELSE DescriptorAt(tree[path[1]].children, Tail(path))

\* C21 as stated: removeField(id) removes exactly the descriptor with that
\* id, wherever it sits, together with its subtree, and leaves every other
\* descriptor in the tree, unchanged and in its place among its siblings.
C21_RemoveFieldRemovesOneSubtree ==
    last.op = "removeField" =>
        \E path \in Paths(shown.fields, <<>>) :
            /\ DescriptorAt(shown.fields, path).id = last.id
            /\ fields = WithoutSubtree(shown.fields, path)

-----------------------------------------------------------------------------
(* Edits issued before the component re-renders *)

\* setFields and onChange of a handler that is called while the setFields of
\* the call before it is not rendered yet: the handler is the closure of the
\* last render and reads the tree of that render (lines 218, 239, 254, 271).
CommitBeforeRender(updatedFields, step) ==
    /\ shown.fields # fields
    /\ emitted = JSONStringify(fields)
    /\ edits < MaxEdits
    /\ fields' = updatedFields
    /\ emitted' = JSONStringify(updatedFields)
    /\ edits' = edits + 1
    /\ last' = step
    /\ UNCHANGED <<value, generatedSchema, shown, pending, parser, now>>

AddRootFieldBeforeRender ==
    CommitBeforeRender(Append(shown.fields, NewField),
                       [op |-> "addField", parentId |-> NullValue])

AddChildFieldBeforeRender ==
    \E field \in Shown :
        /\ field.fieldType \in {"object", "array"}
        /\ CommitBeforeRender(IF field.id # 0
                              THEN addChildField(shown.fields, field.id, NewField)
                              ELSE Append(shown.fields, NewField),
                              [op |-> "addField", parentId |-> Given(field.id)])

RemoveFieldBeforeRender ==
    \E field \in Shown :
        CommitBeforeRender(removeFieldRecursive(shown.fields, field.id),
                           [op |-> "removeField", id |-> field.id])

UpdateFieldBeforeRender ==
    \E field \in Shown, updates \in Updates :
        CommitBeforeRender(updateFieldRecursive(shown.fields, field.id, updates),
                           [op |-> "updateField", id |-> field.id, updates |-> updates])

UpdateValidationBeforeRender ==
    \E field \in Shown :
        \E edit \in ValidationEdits(field.fieldType) :
            CommitBeforeRender(updateValidationRecursive(shown.fields, field.id, edit.key,
                                                         EditValue(edit)),
                               [op |-> "updateValidation", id |-> field.id, edit |-> edit])

NextBatched ==
    \/ Next
    \/ AddRootFieldBeforeRender
    \/ AddChildFieldBeforeRender
    \/ RemoveFieldBeforeRender
    \/ UpdateFieldBeforeRender
    \/ UpdateValidationBeforeRender

\* The editor with events that may be handled before the render of the
\* event before them.
InitBatched == Init \/ InitTrees

SpecBatched == InitBatched /\ [][NextBatched]_vars

\* C22 as stated: no edit is lost.  Every operation is applied on top of the
\* result of all the operations issued before it: the tree a handler reads is
\* the tree last passed to onChange, also when the operation before it is
\* not rendered yet.
C22_EveryEditBuildsOnTheLast ==
    [][(edits' = edits + 1 /\ emitted # NoEmit)
          => JSONStringify(shown.fields) = emitted]_vars

====
